---- MODULE Spec2Model ----
(***************************************************************************)
(* bevy_sprite_ex: the per-frame pipeline extraction -> queue -> sort ->   *)
(* batching (prepare_sprite_image_bind_groups) -> draw (DrawSprite).       *)
(* Entities, images, orders and depths are small integers.  An instance    *)
(* record is identified by the sprite and the mask it was computed from.   *)
(***************************************************************************)
EXTENDS Integers, Sequences, FiniteSets, TLC

\* ---------------------------------------------------------------- bounds
NumSprites == 3
NumMasks == 2
NumViews == 2
NumSpriteImages == 2
MaxOrder == 2
MaxItems == 3
MaxFrameItems == 2
MaxUnloaded == 1
MaxFrames == 2
MaxImageSize == 3
MaxViewItems == 4

\* AssetId::invalid(): the batch image handle before any sprite of a view
Invalid == 0
\* Option::None of a mask handle, a mask, a batch descriptor
None == 0

SpriteEnts == 1..NumSprites
MaskEnts == (NumSprites + 1)..(NumSprites + NumMasks)
\* one draw-phase item queued by another renderer (a 2d mesh)
OtherEnt == NumSprites + NumMasks + 1
Views == 1..NumViews
Orders == 0..MaxOrder
\* every mask has an image of its own, after the images sprites draw from
SpriteImages == 1..NumSpriteImages
MaskImage(e) == NumSpriteImages + (e - NumSprites)
Images == 1..(NumSpriteImages + NumMasks)
EventKinds == {"Added", "LoadedWithDependencies", "Modified", "Removed", "Unused"}

VARIABLES
    \* main world
    sprite,            \* SpriteEx + Handle<Image> + GlobalTransform of each sprite entity
    mask,              \* SpriteMask + Handle<Image> of each mask entity
    mask_iter,         \* iteration order of the extracted mask map
    visible_entities,  \* VisibleEntities of each view (sprites)
    mask_visibility,   \* mask entities whose ViewVisibility is true
    other_z,           \* per view: depth of the non-sprite item, None if absent
    gpu_images,        \* RenderAssets<GpuImage>: the resolvable images
    asset_events,      \* AssetEvent<Image> sent since the last extraction
    \* render world
    extracted_sprites, \* ExtractedSprites { sprites, masks }
    events,            \* SpriteAssetEvents.images
    phases,            \* ViewSortedRenderPhases<Transparent2d>
    image_bind_groups, \* ImageBindGroups { values, mask_values }
    sprite_meta,       \* SpriteMeta
    scan,              \* locals of prepare_sprite_image_bind_groups
    sprite_batch,      \* SpriteBatch component of each render entity
    drawn,             \* outcome of the last DrawSprite run
    skipped,           \* history: sprites skipped by the pass of this and of the previous frame
    placed,            \* history: the entries this pass appended a record for, in order
    previous_pass,     \* history: what the previous pass built, if nothing changed since
    instance_data,     \* the data of one instance record, looked at by itself
    pc,
    frame

vars == <<sprite, mask, mask_iter, visible_entities, mask_visibility, other_z,
          gpu_images, asset_events, extracted_sprites, events, phases,
          image_bind_groups, sprite_meta, scan, sprite_batch, drawn, skipped,
          placed, pc, frame, previous_pass, instance_data>>

world == <<sprite, mask, mask_iter, visible_entities, mask_visibility, other_z>>

\* ------------------------------------------------------------ main world
\* depth of sprite e: the Z of its GlobalTransform translation (even numbers,
\* leaving the odd ones to the non-sprite item); later entities lie deeper
SpriteZ(e) == 2 * (NumSprites + 1 - e)
OtherZs == {2 * k + 1 : k \in 1..(NumSprites - 1)}

\* check_visibility::<WithSprite> sets ViewVisibility of every entity it puts
\* in some view's VisibleEntities
ViewVisibility(e) ==
    IF e \in SpriteEnts THEN \E v \in Views : e \in visible_entities[v]
    ELSE e \in mask_visibility

\* ------------------------------------------------------------ extraction
ExtractedSprite(e) ==
    [image_handle_id |-> sprite[e].image, order |-> sprite[e].order,
     z |-> sprite[e].z]

ExtractedSpriteMask(e) ==
    [entity |-> e, image_handle_id |-> mask[e].image,
     range_start |-> mask[e].range_start, range_end |-> mask[e].range_end]

RECURSIVE MapMasks(_)
MapMasks(s) ==
    IF s = <<>> THEN <<>>
    ELSE <<ExtractedSpriteMask(Head(s))>> \o MapMasks(Tail(s))

VisibleMask(e) == ViewVisibility(e)

\* mutant: the maps are not cleared before they are filled
ExtractSprites_NoClear ==
    extracted_sprites' =
        [sprites |-> [e \in DOMAIN extracted_sprites.sprites
                              \cup {x \in SpriteEnts : ViewVisibility(x)} |->
                         IF ViewVisibility(e) THEN ExtractedSprite(e)
                         ELSE extracted_sprites.sprites[e]],
         masks |-> extracted_sprites.masks
                     \o MapMasks(SelectSeq(mask_iter,
                           LAMBDA m : /\ VisibleMask(m)
                                      /\ \A i \in DOMAIN extracted_sprites.masks :
                                            extracted_sprites.masks[i].entity # m))]

\* extract_sprites: clear, then insert every entity whose ViewVisibility is true
ExtractSprites ==
    extracted_sprites' =
        [sprites |-> [e \in {x \in SpriteEnts : ViewVisibility(x)} |-> ExtractedSprite(e)],
         masks |-> MapMasks(SelectSeq(mask_iter, VisibleMask))]

\* extract_sprite_events: clear, then copy the events read this frame
ExtractSpriteEvents ==
    /\ events' = asset_events
    /\ asset_events' = {}

\* The extract schedule.  The render world's entities (and with them the
\* SpriteBatch components) and the draw phases are emptied by the framework.
Extract ==
    /\ pc = "extract"
    /\ ExtractSprites
    /\ ExtractSpriteEvents
    /\ sprite_batch' = [e \in {} |-> None]
    /\ phases' = [v \in Views |-> << >>]
    /\ pc' = "queue"
    /\ UNCHANGED <<world, gpu_images, image_bind_groups, sprite_meta, scan,
                   drawn, skipped, placed, frame, previous_pass, instance_data>>

\* ----------------------------------------------------------------- queue
\* mutant: the start of the range taken as exclusive
Covers_ExclusiveStart(order, m) == order > m.range_start /\ order <= m.range_end

Covers(order, m) == order >= m.range_start /\ order <= m.range_end

\* the scan of queue_sprites: enable_mask
RECURSIVE EnableMaskFrom(_, _, _)
EnableMaskFrom(order, masks, i) ==
    IF i > Len(masks) THEN FALSE
    ELSE IF Covers(order, masks[i]) THEN TRUE
    ELSE EnableMaskFrom(order, masks, i + 1)

\* mutant: the masks are not looked at
EnableMask_NoMasks(order, masks) == FALSE

\* mutant: only the first mask of the map is looked at
EnableMask_FirstOnly(order, masks) == masks # << >> /\ Covers(order, masks[1])

EnableMask(order, masks) == EnableMaskFrom(order, masks, 1)

\* SpritePipelineKey::HDR and SpritePipelineKey::MASK_ENABLED (1 << 24)
HDR == 1
MASK_ENABLED == 16777216

\* ExtractedView::hdr of view v: the odd views render to an HDR target
ViewHdr(v) == v % 2 = 1

\* the view key of queue_sprites (one MSAA setting, no tonemapping in shader)
ViewKey(v) == IF ViewHdr(v) THEN HDR ELSE 0

\* view_key | MASK_ENABLED: the mask bits are clear in a view key
MaskedKey(view_key) == view_key + MASK_ENABLED

\* the Transparent2d item queue_sprites adds for sprite e in view v
SpriteItem(v, e) ==
    [entity |-> e,
     pipeline |-> IF EnableMask(extracted_sprites.sprites[e].order, extracted_sprites.masks)
                  THEN "masked" ELSE "unmasked",
     key |-> IF EnableMask(extracted_sprites.sprites[e].order, extracted_sprites.masks)
             THEN MaskedKey(ViewKey(v)) ELSE ViewKey(v),
     sort_key |-> extracted_sprites.sprites[e].z,
     batch_range |-> [start |-> 0, end |-> 0]]

\* the item another renderer queued in view v
OtherItems(v) ==
    IF other_z[v] = None THEN << >>
    ELSE <<[entity |-> OtherEnt, pipeline |-> "other", sort_key |-> other_z[v],
            batch_range |-> [start |-> 0, end |-> 0]]>>

\* mutant: the view's visible set is not looked at
RECURSIVE QueueFrom_AllExtracted(_, _)
QueueFrom_AllExtracted(v, e) ==
    IF e > NumSprites THEN << >>
    ELSE (IF e \in DOMAIN extracted_sprites.sprites
          THEN <<SpriteItem(v, e)>> ELSE << >>) \o QueueFrom_AllExtracted(v, e + 1)

\* the extracted sprite map is iterated in ascending entity order
RECURSIVE QueueFrom(_, _)
QueueFrom(v, e) ==
    IF e > NumSprites THEN << >>
    ELSE (IF e \in DOMAIN extracted_sprites.sprites /\ e \in visible_entities[v]
          THEN <<SpriteItem(v, e)>> ELSE << >>) \o QueueFrom(v, e + 1)

QueueSprites ==
    /\ pc = "queue"
    /\ phases' = [v \in Views |-> phases[v] \o OtherItems(v) \o QueueFrom(v, 1)]
    /\ pc' = "sort"
    /\ UNCHANGED <<world, gpu_images, asset_events, extracted_sprites, events,
                   image_bind_groups, sprite_meta, scan, sprite_batch, drawn,
                   skipped, placed, frame, previous_pass, instance_data>>

\* ------------------------------------------------------------------ sort
\* the render-phase sort: stable, ascending sort key
RECURSIVE InsertSorted(_, _)
InsertSorted(s, x) ==
    IF s = << >> THEN <<x>>
    ELSE IF x.sort_key < Head(s).sort_key THEN <<x>> \o s
    ELSE <<Head(s)>> \o InsertSorted(Tail(s), x)

RECURSIVE SortItems(_)
SortItems(s) ==
    IF s = << >> THEN << >>
    ELSE InsertSorted(SortItems(SubSeq(s, 1, Len(s) - 1)), s[Len(s)])

SortPhase ==
    /\ pc = "sort"
    /\ phases' = [v \in Views |-> SortItems(phases[v])]
    /\ pc' = "prepare"
    /\ UNCHANGED <<world, gpu_images, asset_events, extracted_sprites, events,
                   image_bind_groups, sprite_meta, scan, sprite_batch, drawn,
                   skipped, placed, frame, previous_pass, instance_data>>

\* -------------------------------------------------------------- batching
\* mutant: a Modified event evicts nothing
Evicts_NotModified(kind) == kind \in {"Unused", "Removed"}

\* the asset events that evict a cached bind group
Evicts(kind) == kind \in {"Unused", "Modified", "Removed"}

Evicted == {ev.id : ev \in {x \in events : Evicts(x.kind)}}

Restrict(f, S) == [x \in S |-> f[x]]

\* the mask scan of prepare_sprite_image_bind_groups: the position, in the
\* iteration order of the mask map, of the mask it breaks on; None if it ends
\* without a match
RECURSIVE ResolveMaskFrom(_, _, _)
ResolveMaskFrom(order, masks, i) ==
    IF i > Len(masks) THEN None
    ELSE IF Covers(order, masks[i]) THEN i
    ELSE ResolveMaskFrom(order, masks, i + 1)

\* mutant: the scan does not break, so the last covering mask is kept
RECURSIVE ResolveLastFrom(_, _, _)
ResolveLastFrom(order, masks, i) ==
    IF i = 0 THEN None
    ELSE IF Covers(order, masks[i]) THEN i
    ELSE ResolveLastFrom(order, masks, i - 1)

ResolveMask_NoBreak(order, masks) == ResolveLastFrom(order, masks, Len(masks))

ResolveMask(order, masks) == ResolveMaskFrom(order, masks, 1)

\* mutant: HashMap::insert, which replaces a bind group that is there
OrInsert_Always(cache, id) ==
    [x \in DOMAIN cache \cup {id} |-> IF x = id THEN frame ELSE cache[x]]

\* mutant: a bind group is looked up and never created
OrInsert_Never(cache, id) == cache

\* HashMap::entry(id).or_insert_with(create): keeps a bind group that is there
OrInsert(cache, id) ==
    IF id \in DOMAIN cache THEN cache
    ELSE [x \in DOMAIN cache \cup {id} |-> IF x = id THEN frame ELSE cache[x]]

\* mutant: the result of the image lookup is not looked at
ImageSkip_Ignored(changed, image) == FALSE

\* mutant: the result of the image lookup matters only before the first batch
ImageSkip_BeforeFirstBatch(changed, image) ==
    changed /\ image \notin gpu_images /\ scan.batches = << >>

\* whether the image lookup of a sprite entry fails: looked up only when the
\* batch image changes
ImageSkip(changed, image) == changed /\ image \notin gpu_images

\* whether the mask lookup of a sprite entry fails: looked up only when the
\* batch mask changes to some mask
MaskSkip(changed, mask_asset) ==
    changed /\ mask_asset # None /\ mask_asset \notin gpu_images

\* mutant: the instance buffers are not emptied
Clear_KeepInstances(meta) == [meta EXCEPT !.sprite_index_buffer = << >>]

\* SpriteMeta::clear
Clear(meta) ==
    [sprite_index_buffer |-> << >>,
     sprite_instance_buffer |-> << >>,
     masked_sprite_instance_buffer |-> << >>]

\* lines 886-908: evict, clear the buffers, reset the cursors
PrepareBegin ==
    /\ pc = "prepare"
    /\ image_bind_groups' =
         [values |-> Restrict(image_bind_groups.values,
                              DOMAIN image_bind_groups.values \ Evicted),
          mask_values |-> Restrict(image_bind_groups.mask_values,
                                   DOMAIN image_bind_groups.mask_values \ Evicted)]
    /\ sprite_meta' = Clear(sprite_meta)
    /\ scan' = [batches |-> << >>, unmasked_index |-> 0, masked_index |-> 0,
                view |-> 0, item_index |-> 0, batch_item_index |-> 0,
                batch_image_handle |-> Invalid, batch_mask_handle |-> None]
    /\ skipped' = [cur |-> {}, prev |-> skipped.cur]
    /\ placed' = << >>
    /\ pc' = "scan"
    /\ UNCHANGED <<world, gpu_images, asset_events, extracted_sprites, events,
                   phases, sprite_batch, drawn, frame, previous_pass, instance_data>>

\* the item loop of the current view is over (or no view was entered yet)
AtEnd ==
    IF scan.view = 0 THEN TRUE ELSE scan.item_index > Len(phases[scan.view])

\* mutant: the batch image and mask handles are declared outside the loop
NextView_KeepHandles ==
    /\ pc = "scan"
    /\ AtEnd
    /\ scan.view < NumViews
    /\ scan' = [scan EXCEPT !.view = scan.view + 1, !.item_index = 1,
                            !.batch_item_index = 1]
    /\ UNCHANGED <<world, gpu_images, asset_events, extracted_sprites, events,
                   phases, image_bind_groups, sprite_meta, sprite_batch, drawn,
                   skipped, placed, pc, frame, previous_pass, instance_data>>

\* lines 910-916: the next view's phase, with the per-view locals reset
NextView ==
    /\ pc = "scan"
    /\ AtEnd
    /\ scan.view < NumViews
    /\ scan' = [scan EXCEPT !.view = scan.view + 1, !.item_index = 1,
                            !.batch_item_index = 1,
                            !.batch_image_handle = Invalid,
                            !.batch_mask_handle = None]
    /\ UNCHANGED <<world, gpu_images, asset_events, extracted_sprites, events,
                   phases, image_bind_groups, sprite_meta, sprite_batch, drawn,
                   skipped, placed, pc, frame, previous_pass, instance_data>>

\* lines 923-929: an item that is no extracted sprite
ScanOther ==
    /\ pc = "scan"
    /\ ~AtEnd
    /\ phases[scan.view][scan.item_index].entity \notin DOMAIN extracted_sprites.sprites
    /\ scan' = [scan EXCEPT !.batch_image_handle = Invalid,
                            !.item_index = scan.item_index + 1]
    /\ UNCHANGED <<world, gpu_images, asset_events, extracted_sprites, events,
                   phases, image_bind_groups, sprite_meta, sprite_batch, drawn,
                   skipped, placed, pc, frame, previous_pass, instance_data>>

\* lines 931-1049: one sprite entry
ScanSprite ==
    /\ pc = "scan"
    /\ ~AtEnd
    /\ phases[scan.view][scan.item_index].entity \in DOMAIN extracted_sprites.sprites
    /\ LET v == scan.view
           item_index == scan.item_index
           item == phases[v][item_index]
           extracted_sprite == extracted_sprites.sprites[item.entity]
           batch_image_changed ==
               scan.batch_image_handle # extracted_sprite.image_handle_id
       IN
       IF ImageSkip(batch_image_changed, extracted_sprite.image_handle_id)
       THEN \* line 934: continue
            /\ scan' = [scan EXCEPT !.item_index = item_index + 1]
            /\ skipped' = [skipped EXCEPT !.cur = @ \cup {item.entity}]
            /\ UNCHANGED <<image_bind_groups, sprite_meta, phases, placed, pc>>
       ELSE
       LET batch_image_handle == extracted_sprite.image_handle_id
           values == IF batch_image_changed
                     THEN OrInsert(image_bind_groups.values, batch_image_handle)
                     ELSE image_bind_groups.values
           em == ResolveMask(extracted_sprite.order, extracted_sprites.masks)
           mask_asset == IF em = None THEN None
                         ELSE extracted_sprites.masks[em].image_handle_id
           batch_mask_changed == scan.batch_mask_handle # mask_asset
       IN
       IF MaskSkip(batch_mask_changed, mask_asset)
       THEN \* line 971: continue, after the image handle was replaced
            /\ scan' = [scan EXCEPT !.item_index = item_index + 1,
                                    !.batch_image_handle = batch_image_handle]
            /\ image_bind_groups' = [image_bind_groups EXCEPT !.values = values]
            /\ skipped' = [skipped EXCEPT !.cur = @ \cup {item.entity}]
            /\ UNCHANGED <<sprite_meta, phases, placed, pc>>
       ELSE
       LET mask_values == IF batch_mask_changed /\ mask_asset # None
                          THEN OrInsert(image_bind_groups.mask_values, mask_asset)
                          ELSE image_bind_groups.mask_values
           instance == [sprite |-> item.entity,
                        image |-> extracted_sprite.image_handle_id,
                        mask |-> IF em = None THEN None
                                 ELSE extracted_sprites.masks[em].entity,
                        mask_image |-> mask_asset]
           index == IF em # None THEN scan.masked_index ELSE scan.unmasked_index
           new_batch == batch_image_changed \/ batch_mask_changed
           batch_item_index == IF new_batch THEN item_index ELSE scan.batch_item_index
           batches1 == IF new_batch
                       THEN Append(scan.batches,
                                   [entity |-> item.entity,
                                    image_handle_id |-> batch_image_handle,
                                    range |-> [start |-> index, end |-> index],
                                    mask_image_handle_id |-> mask_asset])
                       ELSE scan.batches
       IN
       /\ image_bind_groups' = [values |-> values, mask_values |-> mask_values]
       /\ sprite_meta' =
            IF em # None
            THEN [sprite_meta EXCEPT !.masked_sprite_instance_buffer = Append(@, instance)]
            ELSE [sprite_meta EXCEPT !.sprite_instance_buffer = Append(@, instance)]
       /\ phases' = [phases EXCEPT ![v][batch_item_index].batch_range.end = @ + 1]
       /\ skipped' = skipped
       /\ placed' = Append(placed,
                           [view |-> v, item_index |-> item_index,
                            entity |-> item.entity, masked |-> em # None,
                            slot |-> index, batch |-> Len(batches1)])
       /\ IF batches1 = << >>
          THEN \* line 1048: batches.last_mut().unwrap() on an empty vector
               /\ pc' = "panic"
               /\ scan' = [scan EXCEPT !.batch_image_handle = batch_image_handle,
                                       !.batch_mask_handle = mask_asset,
                                       !.batch_item_index = batch_item_index]
          ELSE /\ pc' = pc
               /\ scan' =
                    [scan EXCEPT
                       !.batch_image_handle = batch_image_handle,
                       !.batch_mask_handle = mask_asset,
                       !.batch_item_index = batch_item_index,
                       !.batches = [batches1 EXCEPT ![Len(batches1)].range.end = @ + 1],
                       !.masked_index = IF em # None THEN @ + 1 ELSE @,
                       !.unmasked_index = IF em # None THEN @ ELSE @ + 1,
                       !.item_index = item_index + 1]
    /\ UNCHANGED <<world, gpu_images, asset_events, extracted_sprites, events,
                   sprite_batch, drawn, frame, previous_pass, instance_data>>

\* commands.insert_or_spawn_batch(batches): a later descriptor of an entity
\* replaces an earlier one
RECURSIVE LastBatchOf(_, _, _)
LastBatchOf(batches, e, i) ==
    IF batches[i].entity = e THEN batches[i] ELSE LastBatchOf(batches, e, i - 1)

InsertOrSpawnBatch(batches) ==
    [e \in {batches[i].entity : i \in DOMAIN batches} |->
        LastBatchOf(batches, e, Len(batches))]

\* lines 1052-1085: upload, rebuild the index buffer if it is not there,
\* attach the descriptors
Finish ==
    /\ pc = "scan"
    /\ AtEnd
    /\ scan.view = NumViews
    /\ sprite_meta' =
         IF Len(sprite_meta.sprite_index_buffer) # 6
         THEN [sprite_meta EXCEPT !.sprite_index_buffer = <<2, 0, 1, 1, 3, 2>>]
         ELSE sprite_meta
    /\ sprite_batch' = InsertOrSpawnBatch(scan.batches)
    /\ pc' = "render"
    /\ UNCHANGED <<world, gpu_images, asset_events, extracted_sprites, events,
                   phases, image_bind_groups, scan, drawn, skipped, placed, frame,
                   previous_pass, instance_data>>

\* ------------------------------------------------------------------ draw
\* mutant: the mask-texture command placed before the sprite-texture command
DrawSprite_MaskFirst ==
    <<"SetItemPipeline", "SetSpriteViewBindGroup", "SetSpriteMaskTextureBindGroup",
      "SetSpriteTextureBindGroup", "DrawSpriteBatch">>

DrawSprite ==
    <<"SetItemPipeline", "SetSpriteViewBindGroup", "SetSpriteTextureBindGroup",
      "SetSpriteMaskTextureBindGroup", "DrawSpriteBatch">>

\* SetSpriteTextureBindGroup::render for the item of entity e
SetSpriteTextureBindGroup(e) ==
    IF e \notin DOMAIN sprite_batch THEN "Failure"
    ELSE IF sprite_batch[e].image_handle_id \in DOMAIN image_bind_groups.values
    THEN "Success" ELSE "Panic"

\* SetSpriteMaskTextureBindGroup::render: batch.unwrap()
SetSpriteMaskTextureBindGroup(e) ==
    IF e \notin DOMAIN sprite_batch THEN "Panic"
    ELSE IF sprite_batch[e].mask_image_handle_id = None THEN "Success"
    ELSE IF sprite_batch[e].mask_image_handle_id \in DOMAIN image_bind_groups.mask_values
    THEN "Success" ELSE "Panic"

\* DrawSpriteBatch::render
DrawSpriteBatch(e) ==
    IF e \notin DOMAIN sprite_batch THEN "Failure"
    ELSE IF sprite_meta.sprite_index_buffer = << >> THEN "Panic"
    ELSE "Success"

Render(command, e) ==
    CASE command = "SetItemPipeline" -> "Success"
      [] command = "SetSpriteViewBindGroup" -> "Success"
      [] command = "SetSpriteTextureBindGroup" -> SetSpriteTextureBindGroup(e)
      [] command = "SetSpriteMaskTextureBindGroup" -> SetSpriteMaskTextureBindGroup(e)
      [] command = "DrawSpriteBatch" -> DrawSpriteBatch(e)

\* the tuple of render commands: each in turn, stopping at the first that
\* does not succeed
RECURSIVE RunCommands(_, _, _)
RunCommands(commands, e, done) ==
    IF commands = << >> THEN [result |-> "Success", steps |-> done]
    ELSE LET r == Render(Head(commands), e)
         IN IF r = "Success"
            THEN RunCommands(Tail(commands), e, Append(done, Head(commands)))
            ELSE [result |-> r, steps |-> Append(done, Head(commands))]

NotDrawn ==
    [entity |-> None, result |-> "none", steps |-> << >>, texture |-> None,
     mask_texture |-> None, buffer |-> "none", instances |-> [start |-> 0, end |-> 0]]

\* mutant: the unmasked buffer whatever the descriptor
InstanceBuffer_Unmasked(batch) == "unmasked"

\* DrawSpriteBatch::render, lines 1203-1207: the vertex buffer of the draw
InstanceBuffer(batch) ==
    IF batch.mask_image_handle_id # None THEN "masked" ELSE "unmasked"

\* what a run of DrawSprite for the item of entity e leaves in the pass
Draw(e) ==
    LET run == RunCommands(DrawSprite, e, << >>)
        ok == run.result = "Success"
    IN [entity |-> e, result |-> run.result, steps |-> run.steps,
        texture |-> IF ok THEN sprite_batch[e].image_handle_id ELSE None,
        mask_texture |-> IF ok THEN sprite_batch[e].mask_image_handle_id ELSE None,
        buffer |-> IF ~ok THEN "none" ELSE InstanceBuffer(sprite_batch[e]),
        instances |-> IF ok THEN sprite_batch[e].range ELSE [start |-> 0, end |-> 0]]

\* the draw function of a sprite item of some view is run
DrawItem ==
    /\ pc = "render"
    /\ \E v \in Views : \E i \in DOMAIN phases[v] :
          /\ phases[v][i].pipeline # "other"
          /\ drawn' = Draw(phases[v][i].entity)
    /\ UNCHANGED <<world, gpu_images, asset_events, extracted_sprites, events,
                   phases, image_bind_groups, sprite_meta, scan, sprite_batch,
                   skipped, placed, pc, frame, previous_pass, instance_data>>

\* ------------------------------------------------------- instance data
\* An f32 is [sign, m, e], standing for (-1)^sign * m * 2^e with
\* 2^23 <= m < 2^24, or zero (m = 0).  Only the operations the UV
\* computation uses are here, on operands in the range of UV coordinates.
Zero == [sign |-> 0, m |-> 0, e |-> 0]

RECURSIVE BitLen(_)
BitLen(n) == IF n = 0 THEN 0 ELSE 1 + BitLen(n \div 2)

\* the f32 nearest to (-1)^sign * M * 2^e, ties to the even mantissa
F32Round(sign, M, e) ==
    IF M = 0 THEN Zero
    ELSE LET b == BitLen(M)
         IN IF b <= 24
            THEN [sign |-> sign, m |-> M * 2^(24 - b), e |-> e - (24 - b)]
            ELSE LET shift == b - 24
                     m0 == M \div 2^shift
                     rem == M % 2^shift
                     half == 2^(shift - 1)
                     m1 == IF rem > half \/ (rem = half /\ m0 % 2 = 1)
                           THEN m0 + 1 ELSE m0
                 IN IF m1 = 2^24
                    THEN [sign |-> sign, m |-> 2^23, e |-> e + shift + 1]
                    ELSE [sign |-> sign, m |-> m1, e |-> e + shift]

\* the f32 of a small integer
F32(n) == F32Round(IF n < 0 THEN 1 ELSE 0, IF n < 0 THEN -n ELSE n, 0)

\* x * -1.0 (a zero compares equal to its negation)
F32Neg(x) == IF x.m = 0 THEN x ELSE [x EXCEPT !.sign = 1 - @]

Signed(x, e) == (IF x.sign = 1 THEN -1 ELSE 1) * x.m * 2^(x.e - e)

\* x + y
F32Add(x, y) ==
    IF x.m = 0 THEN y
    ELSE IF y.m = 0 THEN x
    ELSE LET e == IF x.e < y.e THEN x.e ELSE y.e
             sum == Signed(x, e) + Signed(y, e)
         IN F32Round(IF sum < 0 THEN 1 ELSE 0, IF sum < 0 THEN -sum ELSE sum, e)

\* the least k with n * 2^k >= 2^24 * d
RECURSIVE QuotientShift(_, _, _)
QuotientShift(n, d, k) ==
    IF n * 2^k >= 2^24 * d THEN k ELSE QuotientShift(n, d, k + 1)

\* n as f32 / d as f32, for integers n >= 0 and d > 0: 25 bits of the
\* quotient and a sticky bit for the remainder, then rounded
F32Div(n, d) ==
    IF n = 0 THEN Zero
    ELSE LET k == QuotientShift(n, d, 0)
             q == (n * 2^k) \div d
             sticky == IF (n * 2^k) % d # 0 THEN 1 ELSE 0
         IN F32Round(0, 2 * q + sticky, -(k + 1))

\* mutant: flip_x remaps the y components
FlipX_OnY(uv) == [uv EXCEPT !.y = F32Add(uv.y, uv.w), !.w = F32Neg(uv.w)]

\* lines 494-497: uv_offset_scale.x += .z; .z *= -1.0
FlipX(uv) == [uv EXCEPT !.x = F32Add(uv.x, uv.z), !.z = F32Neg(uv.z)]

\* lines 498-501: uv_offset_scale.y += .w; .w *= -1.0
FlipY(uv) == [uv EXCEPT !.y = F32Add(uv.y, uv.w), !.w = F32Neg(uv.w)]

\* Option<Rect>::None
NoRect == [some |-> FALSE]

\* calculate_uv_offset_scale; image_size is <<width, height>>, rect is NoRect
\* or [some |-> TRUE, min |-> <<x, y>>, max |-> <<x, y>>], in whole pixels
calculate_uv_offset_scale(image_size, rect, flip_x, flip_y) ==
    LET unflipped ==
          IF rect.some
          THEN [x |-> F32Div(rect.min[1], image_size[1]),
                y |-> F32Div(rect.max[2], image_size[2]),
                z |-> F32Div(rect.max[1] - rect.min[1], image_size[1]),
                w |-> F32Neg(F32Div(rect.max[2] - rect.min[2], image_size[2]))]
          ELSE [x |-> F32(0), y |-> F32(1), z |-> F32(1), w |-> F32(-1)]
        flipped_x == IF flip_x THEN FlipX(unflipped) ELSE unflipped
    IN IF flip_y THEN FlipY(flipped_x) ELSE flipped_x

\* ----------------------------------------------------------- BlendMode
\* the variants of BlendMode, in the order of their declaration
BlendModeVariants ==
    <<"Normal", "Darken", "Multiply", "ColorBurn", "Lighten", "Screen",
      "ColorDodge", "Addition", "Overlay", "SoftLight", "HardLight",
      "Difference", "Exclusion", "Subtract", "Divide", "Hue", "Saturation",
      "Color", "Luminosity">>

BlendModes == {BlendModeVariants[i] : i \in 1..Len(BlendModeVariants)}

\* the cast of an enum without explicit discriminants: the position of the
\* variant in the declaration
BlendModeCode_Ordinal(blend_mode) ==
    (CHOOSE i \in 1..Len(BlendModeVariants) : BlendModeVariants[i] = blend_mode) - 1

\* blend_mode as i32: the discriminant the declaration gives the variant
BlendModeCode(blend_mode) ==
    CASE blend_mode = "Normal" -> 0
      [] blend_mode = "Darken" -> 10
      [] blend_mode = "Multiply" -> 11
      [] blend_mode = "ColorBurn" -> 12
      [] blend_mode = "Lighten" -> 20
      [] blend_mode = "Screen" -> 21
      [] blend_mode = "ColorDodge" -> 22
      [] blend_mode = "Addition" -> 23
      [] blend_mode = "Overlay" -> 30
      [] blend_mode = "SoftLight" -> 31
      [] blend_mode = "HardLight" -> 32
      [] blend_mode = "Difference" -> 40
      [] blend_mode = "Exclusion" -> 41
      [] blend_mode = "Subtract" -> 42
      [] blend_mode = "Divide" -> 43
      [] blend_mode = "Hue" -> 50
      [] blend_mode = "Saturation" -> 51
      [] blend_mode = "Color" -> 52
      [] blend_mode = "Luminosity" -> 53

\* ------------------------------------------------------ instance records
\* SpriteInstance::from; the transform and the colour are carried as they are
SpriteInstanceFrom(transform, color, uv_offset_scale, blend_mode) ==
    [i_model_transpose |-> transform,
     i_color |-> color,
     i_uv_offset_scale |-> uv_offset_scale,
     blend_mode |-> BlendModeCode(blend_mode),
     _padding |-> <<0, 0, 0>>]

\* MaskedSpriteInstance::from
MaskedSpriteInstanceFrom(sprite_instance, mask_transform, mask_uv_offset_scale) ==
    [sprite |-> sprite_instance,
     i_mask_model_transpose |-> mask_transform,
     i_mask_uv_offset_scale |-> mask_uv_offset_scale]

\* size and alignment in bytes of the element types of the records
SizeOf(type) == CASE type = "Vec4" -> 16 [] type = "f32" -> 4 [] type = "i32" -> 4

AlignOf(type) == CASE type = "Vec4" -> 16 [] type = "f32" -> 4 [] type = "i32" -> 4

\* an array field [type; len]
Field(name, type, len) ==
    [name |-> name, size |-> len * SizeOf(type), align |-> AlignOf(type),
     rows |-> IF type = "Vec4" THEN len ELSE 1]

AlignUp(n, align) == ((n + align - 1) \div align) * align

Max(S) == CHOOSE n \in S : \A m \in S : m <= n

\* #[repr(C)]: the fields in the order of their declaration, each at the next
\* offset its alignment allows; the size is rounded up to the alignment of the
\* struct
RECURSIVE OffsetOf(_, _)
OffsetOf(fields, i) ==
    IF i = 1 THEN 0
    ELSE AlignUp(OffsetOf(fields, i - 1) + fields[i - 1].size, fields[i].align)

StructAlign(fields) == Max({fields[i].align : i \in 1..Len(fields)})

StructSize(fields) ==
    AlignUp(OffsetOf(fields, Len(fields)) + fields[Len(fields)].size,
            StructAlign(fields))

\* struct SpriteInstance
SpriteInstanceFields ==
    <<Field("i_model_transpose", "Vec4", 3),
      Field("i_color", "f32", 4),
      Field("i_uv_offset_scale", "f32", 4),
      Field("blend_mode", "i32", 1),
      Field("_padding", "i32", 3)>>

\* struct MaskedSpriteInstance; its first field is a whole SpriteInstance
MaskedSpriteInstanceFields ==
    <<[name |-> "sprite", size |-> StructSize(SpriteInstanceFields),
       align |-> StructAlign(SpriteInstanceFields), rows |-> 1],
      Field("i_mask_model_transpose", "Vec4", 3),
      Field("i_mask_uv_offset_scale", "f32", 4)>>

\* the byte ranges of the fields of a record, a field of several Vec4 rows
\* giving one range per row
RECURSIVE RangesFrom(_, _)
RangesFrom(fields, i) ==
    IF i > Len(fields) THEN << >>
    ELSE LET row == fields[i].size \div fields[i].rows
         IN [r \in 1..fields[i].rows |->
                [offset |-> OffsetOf(fields, i) + (r - 1) * row, size |-> row]]
            \o RangesFrom(fields, i + 1)

\* the ranges of the record pushed to the instance buffer: those of a
\* SpriteInstance, then for a masked record those of the mask fields
RecordRanges(mask_enable) ==
    IF mask_enable
    THEN RangesFrom(SpriteInstanceFields, 1) \o RangesFrom(MaskedSpriteInstanceFields, 2)
    ELSE RangesFrom(SpriteInstanceFields, 1)

RecordSize(mask_enable) ==
    IF mask_enable THEN StructSize(MaskedSpriteInstanceFields)
    ELSE StructSize(SpriteInstanceFields)

\* ------------------------------------------------- the vertex layout
\* key.contains(flag), for a flag of one bit
KeyContains(key, flag) == (key \div flag) % 2 = 1

\* bytes of a vertex format
FormatSize(format) ==
    CASE format = "Float32x4" -> 16
      [] format = "Sint32" -> 4
      [] format = "Sint32x3" -> 12

\* a stride that does not grow with the mask
ArrayStride_Unmasked(mask_enable) == 96

\* array_stride of specialize
ArrayStride(mask_enable) == IF mask_enable THEN 96 + 64 ELSE 96

\* instance_rate_vertex_buffer_layout of specialize
instance_rate_vertex_buffer_layout(key) ==
    LET mask_enable == KeyContains(key, MASK_ENABLED)
        attribute(format, offset, shader_location) ==
            [format |-> format, offset |-> offset,
             shader_location |-> shader_location]
    IN [array_stride |-> ArrayStride(mask_enable),
        step_mode |-> "Instance",
        attributes |->
            <<attribute("Float32x4", 0, 0),
              attribute("Float32x4", 16, 1),
              attribute("Float32x4", 32, 2),
              attribute("Float32x4", 48, 3),
              attribute("Float32x4", 64, 4),
              attribute("Sint32", 80, 5),
              attribute("Sint32x3", 84, 6)>>
            \o IF mask_enable
               THEN <<attribute("Float32x4", 96, 7),
                      attribute("Float32x4", 112, 8),
                      attribute("Float32x4", 128, 9),
                      attribute("Float32x4", 144, 10)>>
               ELSE << >>]

\* ------------------------------------------------- between two frames
NextFrame ==
    /\ pc = "render"
    /\ frame < MaxFrames
    /\ frame' = frame + 1
    /\ pc' = "extract"
    /\ drawn' = NotDrawn
    /\ instance_data' = instance_data

\* no pass to compare the next one with
NoPass ==
    [taken |-> FALSE, sprite_instance_buffer |-> << >>,
     masked_sprite_instance_buffer |-> << >>, batches |-> << >>]

\* nothing changes in the main world
Idle ==
    /\ NextFrame
    /\ previous_pass' =
         [taken |-> TRUE,
          sprite_instance_buffer |-> sprite_meta.sprite_instance_buffer,
          masked_sprite_instance_buffer |-> sprite_meta.masked_sprite_instance_buffer,
          batches |-> scan.batches]
    /\ UNCHANGED <<world, gpu_images, asset_events, extracted_sprites, events,
                   phases, image_bind_groups, sprite_meta, scan, sprite_batch,
                   skipped, placed>>

\* the asset system reports an event for image id; the image is resolvable
\* after a load or a change, and not after a removal
AssetEvent ==
    /\ NextFrame
    /\ \E kind \in EventKinds, id \in Images :
          /\ asset_events' = {[kind |-> kind, id |-> id]}
          /\ gpu_images' = IF kind \in {"Removed", "Unused"} THEN gpu_images \ {id}
                           ELSE IF kind = "Modified" THEN gpu_images
                           ELSE gpu_images \cup {id}
    /\ previous_pass' = NoPass
    /\ UNCHANGED <<world, extracted_sprites, events, phases, image_bind_groups,
                   sprite_meta, scan, sprite_batch, skipped, placed>>

\* a sprite enters or leaves a view; a mask is shown or hidden
ChangeVisibility ==
    /\ NextFrame
    /\ \/ \E v \in Views, e \in SpriteEnts :
             /\ visible_entities' =
                  [visible_entities EXCEPT ![v] = IF e \in @ THEN @ \ {e} ELSE @ \cup {e}]
             /\ mask_visibility' = mask_visibility
       \/ \E e \in MaskEnts :
             /\ mask_visibility' = IF e \in mask_visibility THEN mask_visibility \ {e}
                                   ELSE mask_visibility \cup {e}
             /\ visible_entities' = visible_entities
    /\ previous_pass' = NoPass
    /\ UNCHANGED <<sprite, mask, mask_iter, other_z, gpu_images, asset_events,
                   extracted_sprites, events, phases, image_bind_groups,
                   sprite_meta, scan, sprite_batch, skipped, placed>>

\* ------------------------------------------------------- specification
\* mask k covers the orders k..MaxOrder, as the masks of examples/sprite_mask.rs
MaskOf(e) ==
    [image |-> MaskImage(e), range_start |-> e - NumSprites, range_end |-> MaxOrder]

\* SpriteEx::default() with the default image handle: a sprite in no view
DefaultSprite(e) == [image |-> 1, order |-> 0, z |-> SpriteZ(e)]

\* the orders in which a map of the mask entities can be iterated
Perms(S) ==
    {p \in [1..Cardinality(S) -> S] : \A i, j \in DOMAIN p : i # j => p[i] # p[j]}

ItemCount(vis, oz) ==
    LET n[v \in 0..NumViews] ==
          IF v = 0 THEN 0
          ELSE n[v - 1] + Cardinality(vis[v]) + (IF oz[v] = None THEN 0 ELSE 1)
    IN n[NumViews]

\* the render world before the first frame
InitRender ==
    /\ asset_events = {}
    /\ extracted_sprites = [sprites |-> [e \in {} |-> None], masks |-> << >>]
    /\ events = {}
    /\ phases = [v \in Views |-> << >>]
    /\ image_bind_groups = [values |-> [x \in {} |-> 0], mask_values |-> [x \in {} |-> 0]]
    /\ sprite_meta = [sprite_index_buffer |-> << >>,
                      sprite_instance_buffer |-> << >>,
                      masked_sprite_instance_buffer |-> << >>]
    /\ scan = [batches |-> << >>, unmasked_index |-> 0, masked_index |-> 0,
               view |-> 0, item_index |-> 0, batch_item_index |-> 0,
               batch_image_handle |-> Invalid, batch_mask_handle |-> None]
    /\ sprite_batch = [e \in {} |-> None]
    /\ drawn = NotDrawn
    /\ skipped = [cur |-> {}, prev |-> {}]
    /\ placed = << >>
    /\ pc = "extract"
    /\ frame = 1
    /\ previous_pass = NoPass

\* a main world with at most maxItems draw-phase items over the given views,
\* the visible sprites drawing from the given images
InitWorldWith(views, maxItems, images) ==
    /\ visible_entities \in [Views -> SUBSET SpriteEnts]
    /\ other_z \in [Views -> {None} \cup OtherZs]
    /\ \A v \in Views \ views : visible_entities[v] = {} /\ other_z[v] = None
    /\ ItemCount(visible_entities, other_z) <= maxItems
    /\ \E f \in [SpriteEnts -> [image : images, order : Orders]] :
          sprite = [e \in SpriteEnts |->
                      IF \E v \in Views : e \in visible_entities[v]
                      THEN [image |-> f[e].image, order |-> f[e].order, z |-> SpriteZ(e)]
                      ELSE DefaultSprite(e)]
    /\ mask = [e \in MaskEnts |-> MaskOf(e)]
    /\ mask_iter \in Perms(MaskEnts)
    /\ mask_visibility = MaskEnts
    /\ \E unloaded \in SUBSET Images :
          /\ Cardinality(unloaded \cap SpriteImages) <= MaxUnloaded
          /\ Cardinality(unloaded \ SpriteImages) <= MaxUnloaded
          /\ gpu_images = Images \ unloaded

InitWorld(views, maxItems) == InitWorldWith(views, maxItems, SpriteImages)

\* no instance data is looked at by itself
NoInstance == [stage |-> "none"]

Init == InitWorld(Views, MaxItems) /\ InitRender /\ instance_data = NoInstance

\* one frame of the render schedule
Next ==
    \/ Extract
    \/ QueueSprites
    \/ SortPhase
    \/ PrepareBegin
    \/ NextView
    \/ ScanOther
    \/ ScanSprite
    \/ Finish
    \/ DrawItem

Spec == Init /\ [][Next]_vars

\* frame after frame, the main world changing in between
InitFrames ==
    InitWorld({1}, MaxFrameItems) /\ InitRender /\ instance_data = NoInstance

NextFrames ==
    \/ Next
    \/ Idle
    \/ AssetEvent
    \/ ChangeVisibility

SpecFrames == InitFrames /\ [][NextFrames]_vars

\* frame after frame, with an image that is the texture of a sprite and of
\* the first mask at once, so that it has an entry in both caches
SharedImages == {1, MaskImage(NumSprites + 1)}

InitCache ==
    /\ InitWorldWith({1}, MaxFrameItems, SharedImages)
    /\ InitRender
    /\ instance_data = NoInstance

SpecCache == InitCache /\ [][NextFrames]_vars

\* one frame, one view with room for every sprite and the non-sprite item, so
\* that a skipped sprite can stand between that item and a processed sprite
InitInterleaved ==
    InitWorld({1}, MaxViewItems) /\ InitRender /\ instance_data = NoInstance

SpecInterleaved == InitInterleaved /\ [][Next]_vars

\* ---------------------------------------------- instance data by itself
\* image sizes and crop rects in whole pixels, the rect inside the image
ImageSizes == (1..MaxImageSize) \X (1..MaxImageSize)

Rects(image_size) ==
    {r \in [some : {TRUE},
            min : (0..image_size[1]) \X (0..image_size[2]),
            max : (0..image_size[1]) \X (0..image_size[2])] :
        r.min[1] <= r.max[1] /\ r.min[2] <= r.max[2]}

\* everything but the instance data
pipeline == <<world, gpu_images, asset_events, extracted_sprites, events, phases,
              image_bind_groups, sprite_meta, scan, sprite_batch, drawn, skipped,
              placed, pc, frame, previous_pass>>

\* a sprite's image size, crop rect and flips, before anything is computed
InitInstance ==
    /\ InitWorld({}, 0)
    /\ gpu_images = Images
    /\ mask_iter = [i \in 1..NumMasks |-> NumSprites + i]
    /\ InitRender
    /\ \E image_size \in ImageSizes :
       \E rect \in {NoRect} \cup Rects(image_size) :
       \E flip_x, flip_y \in BOOLEAN :
          instance_data = [stage |-> "input", image_size |-> image_size, rect |-> rect,
                      flip_x |-> flip_x, flip_y |-> flip_y,
                      uv_offset_scale |-> [x |-> Zero, y |-> Zero, z |-> Zero,
                                           w |-> Zero],
                      remaps_x |-> 0, remaps_y |-> 0]

\* calculate_uv_offset_scale is called for the sprite
CalculateUv ==
    /\ instance_data.stage = "input"
    /\ instance_data' = [instance_data EXCEPT
                      !.stage = "uv",
                      !.uv_offset_scale =
                          calculate_uv_offset_scale(
                              instance_data.image_size, instance_data.rect,
                              instance_data.flip_x, instance_data.flip_y)]
    /\ UNCHANGED pipeline

\* the remap of flip_x is applied to the value once more
RemapX ==
    /\ instance_data.stage = "uv"
    /\ instance_data.remaps_x < 2
    /\ instance_data' = [instance_data EXCEPT !.uv_offset_scale = FlipX(@),
                                               !.remaps_x = @ + 1]
    /\ UNCHANGED pipeline

\* the remap of flip_y is applied to the value once more
RemapY ==
    /\ instance_data.stage = "uv"
    /\ instance_data.remaps_y < 2
    /\ instance_data' = [instance_data EXCEPT !.uv_offset_scale = FlipY(@),
                                               !.remaps_y = @ + 1]
    /\ UNCHANGED pipeline

\* SpriteInstance::from, and MaskedSpriteInstance::from when the sprite has a
\* mask, for a sprite of any blend mode
BuildInstance ==
    /\ instance_data.stage = "uv"
    /\ instance_data.remaps_x = 0 /\ instance_data.remaps_y = 0
    /\ \E blend_mode \in BlendModes, masked \in BOOLEAN, v \in Views :
          LET sprite_instance ==
                SpriteInstanceFrom("sprite_transform", "color",
                                   instance_data.uv_offset_scale, blend_mode)
              mask_uv_offset_scale ==
                calculate_uv_offset_scale(instance_data.image_size, NoRect,
                                          FALSE, FALSE)
          IN instance_data' =
               [stage |-> "instance",
                image_size |-> instance_data.image_size,
                rect |-> instance_data.rect,
                flip_x |-> instance_data.flip_x,
                flip_y |-> instance_data.flip_y,
                blend_mode |-> blend_mode,
                masked |-> masked,
                key |-> IF masked THEN MaskedKey(ViewKey(v)) ELSE ViewKey(v),
                instance |->
                    IF masked
                    THEN MaskedSpriteInstanceFrom(sprite_instance, "mask_transform",
                                                  mask_uv_offset_scale)
                    ELSE sprite_instance,
                ranges |-> RecordRanges(masked),
                size |-> RecordSize(masked),
                layout |-> [array_stride |-> 0, step_mode |-> "Instance",
                            attributes |-> << >>]]
    /\ UNCHANGED pipeline

\* specialize, for the pipeline key the sprite was queued with
Specialize ==
    /\ instance_data.stage = "instance"
    /\ instance_data' =
          [instance_data EXCEPT
             !.stage = "pipeline",
             !.layout = instance_rate_vertex_buffer_layout(instance_data.key)]
    /\ UNCHANGED pipeline

NextInstance ==
    \/ CalculateUv
    \/ RemapX
    \/ RemapY
    \/ BuildInstance
    \/ Specialize

SpecInstance == InitInstance /\ [][NextInstance]_vars

\* ================================================================ claims
PassDone == pc = "render"

\* the instance buffer a descriptor is drawn from (DrawSpriteBatch, 1203-1207)
BufferOf(b) ==
    IF b.mask_image_handle_id # None THEN sprite_meta.masked_sprite_instance_buffer
    ELSE sprite_meta.sprite_instance_buffer

RangeOf(b) == b.range.start .. (b.range.end - 1)

BatchesIn(masked) ==
    {i \in DOMAIN scan.batches : (scan.batches[i].mask_image_handle_id # None) = masked}

BufferIs(masked) ==
    IF masked THEN sprite_meta.masked_sprite_instance_buffer
    ELSE sprite_meta.sprite_instance_buffer

IsSprite(item) == item.entity \in DOMAIN extracted_sprites.sprites

\* C1: after a batching pass, in each of the two instance buffers the ranges
\* of the batch descriptors do not overlap and their union is exactly
\* [0, number of records of the buffer).
C1_RangesPartitionBuffers ==
    PassDone =>
      \A masked \in BOOLEAN :
        /\ \A i, j \in BatchesIn(masked) :
              i # j => RangeOf(scan.batches[i]) \cap RangeOf(scan.batches[j]) = {}
        /\ UNION {RangeOf(scan.batches[i]) : i \in BatchesIn(masked)}
             = 0 .. (Len(BufferIs(masked)) - 1)

\* C2: after a batching pass, every instance record in the range of a batch
\* descriptor comes from a sprite with the descriptor's image and from a mask
\* with the descriptor's mask image (no mask for an unmasked descriptor).
C2_BatchRecordsShareKeys ==
    PassDone =>
      \A i \in DOMAIN scan.batches :
        LET b == scan.batches[i]
        IN \A k \in RangeOf(b) :
              k < Len(BufferOf(b)) =>
                 /\ BufferOf(b)[k + 1].image = b.image_handle_id
                 /\ BufferOf(b)[k + 1].mask_image = b.mask_image_handle_id

\* C3: after a batching pass, two sprite entries of a view that were processed
\* one after the other, with no non-sprite item between them, and that have
\* the same image and the same resolved mask image, are in the same batch.
C3_MinimalBatching ==
    PassDone =>
      \A k \in 1 .. (Len(placed) - 1) :
        LET a == placed[k]
            b == placed[k + 1]
            ra == BufferIs(a.masked)[a.slot + 1]
            rb == BufferIs(b.masked)[b.slot + 1]
        IN ( /\ a.view = b.view
             /\ \A i \in a.item_index .. b.item_index : IsSprite(phases[a.view][i])
             /\ ra.image = rb.image
             /\ ra.mask_image = rb.mask_image )
           => a.batch = b.batch

\* C6: the batching pass never panics.
C6_PassNeverPanics == pc # "panic"

\* C7: after a batching pass, every draw-phase entry of an extracted sprite
\* whose image is resolvable was given exactly one instance record in exactly
\* one batch, and the record is an unmasked one when the image of the mask
\* that covers the sprite is not resolvable.
C7_ResolvableSpriteAlwaysBatched ==
    PassDone =>
      \A v \in Views : \A i \in DOMAIN phases[v] :
        LET item == phases[v][i]
            hits == {k \in DOMAIN placed :
                       placed[k].view = v /\ placed[k].item_index = i}
        IN (IsSprite(item)
            /\ extracted_sprites.sprites[item.entity].image_handle_id \in gpu_images)
           => /\ Cardinality(hits) = 1
              /\ \A k \in hits :
                    /\ placed[k].batch \in DOMAIN scan.batches
                    /\ LET r == BufferIs(placed[k].masked)[placed[k].slot + 1]
                       IN r.mask_image # None => r.mask_image \in gpu_images

\* the states in which the buffers are those of the pass over the present
\* extracted maps, and those in which the draw phases are
InPass == pc \in {"scan", "render", "panic"}
Queued == pc \in {"sort", "prepare", "scan", "render", "panic"}

\* positions, in iteration order, of the extracted masks whose range holds o
CoveringMasks(o) ==
    {i \in DOMAIN extracted_sprites.masks :
        /\ extracted_sprites.masks[i].range_start <= o
        /\ o <= extracted_sprites.masks[i].range_end}

OrderOf(e) == extracted_sprites.sprites[e].order

RecordOf(p) == BufferIs(p.masked)[p.slot + 1]

C5_FirstCoveringMaskWins ==
    InPass =>
      \A k \in DOMAIN placed :
        LET covering == CoveringMasks(OrderOf(placed[k].entity))
        IN covering # {} =>
             /\ placed[k].masked
             /\ \E i \in covering :
                   /\ \A j \in covering : i <= j
                   /\ RecordOf(placed[k]).mask = extracted_sprites.masks[i].entity

\* in the second frame a sprite under two masks was given its record
C5_Witness ==
    /\ InPass
    /\ frame = 2
    /\ \E k \in DOMAIN placed :
          /\ Cardinality(CoveringMasks(OrderOf(placed[k].entity))) >= 2
          /\ placed[k].masked

\* C8: the step of the pass for a sprite entry whose image is not resolvable
\* changes nothing but the position in the list: buffers, descriptors,
\* cursors, batch image and mask handles, caches and draw phases stay.
C8_UnresolvableImageLeavesScan ==
    [][ ( /\ pc = "scan"
          /\ ~AtEnd
          /\ IsSprite(phases[scan.view][scan.item_index])
          /\ extracted_sprites.sprites[phases[scan.view][scan.item_index].entity]
                .image_handle_id \notin gpu_images )
        => ( /\ pc' = "scan"
             /\ sprite_meta' = sprite_meta
             /\ scan' = [scan EXCEPT !.item_index = @ + 1]
             /\ image_bind_groups' = image_bind_groups
             /\ phases' = phases
             /\ placed' = placed ) ]_vars

\* a sprite with an unresolvable image was skipped while a batch was open
C8_Witness ==
    /\ pc = "scan"
    /\ scan.batches # << >>
    /\ scan.batch_image_handle # Invalid
    /\ \E e \in skipped.cur :
          extracted_sprites.sprites[e].image_handle_id \notin gpu_images

\* the entry of placed that a batch descriptor covers
InBatch(p) ==
    /\ p.batch \in DOMAIN scan.batches
    /\ (scan.batches[p.batch].mask_image_handle_id # None) = p.masked
    /\ p.slot \in RangeOf(scan.batches[p.batch])

\* C9: a sprite skipped by the pass of the previous frame that has a
\* draw-phase entry in this frame, a resolvable image and, if a mask covers
\* it, a resolvable mask image, is in a batch when this frame's pass ends.
C9_SkippedSpriteBatchedNextFrame ==
    pc \in {"render", "panic"} =>
      \A e \in skipped.prev :
        ( /\ \E v \in Views : \E i \in DOMAIN phases[v] : phases[v][i].entity = e
          /\ e \in DOMAIN extracted_sprites.sprites
          /\ extracted_sprites.sprites[e].image_handle_id \in gpu_images
          /\ \A i \in CoveringMasks(OrderOf(e)) :
                extracted_sprites.masks[i].image_handle_id \in gpu_images )
        => \E k \in DOMAIN placed : placed[k].entity = e /\ InBatch(placed[k])

\* C10: a run of DrawSprite for an item whose entity has no batch descriptor
\* ends with Failure at the sprite-texture step; the mask-texture step and
\* the draw step are not run.
C10_DrawWithoutBatchFails ==
    (drawn.entity # None /\ drawn.entity \notin DOMAIN sprite_batch)
      => /\ drawn.result = "Failure"
         /\ drawn.steps = <<"SetItemPipeline", "SetSpriteViewBindGroup",
                            "SetSpriteTextureBindGroup">>

\* DrawSprite was run for an item without a descriptor
C10_Witness ==
    /\ drawn.entity # None
    /\ drawn.entity \notin DOMAIN sprite_batch
    /\ sprite_batch # [e \in {} |-> None]

\* the entities of the extracted mask map
MaskKeys == {extracted_sprites.masks[i].entity : i \in DOMAIN extracted_sprites.masks}

\* C11: once a frame's extraction has run, the keys of the extracted sprite
\* map are exactly the sprite entities whose ViewVisibility is true and the
\* keys of the extracted mask map exactly the visible mask entities, each
\* once, whatever the maps held before and whether or not images are loaded.
C11_ExtractedKeysAreVisible ==
    pc # "extract" =>
      /\ DOMAIN extracted_sprites.sprites = {e \in SpriteEnts : ViewVisibility(e)}
      /\ MaskKeys = {e \in MaskEnts : ViewVisibility(e)}
      /\ Len(extracted_sprites.masks) = Cardinality(MaskKeys)

\* in the second frame a sprite the previous pass gave a record has left the
\* map, and a sprite whose image is not loaded is in it
C11_Witness ==
    /\ frame = 2
    /\ pc = "queue"
    /\ \E k \in DOMAIN placed : placed[k].entity \notin DOMAIN extracted_sprites.sprites
    /\ \E e \in DOMAIN extracted_sprites.sprites :
          extracted_sprites.sprites[e].image_handle_id \notin gpu_images

EntriesOf(phase, e) == {i \in DOMAIN phase : phase[i].entity = e}

\* C13: the queue stage adds to the phase of each view exactly one entry for
\* every extracted sprite in the view's visible set and none for any other
\* extracted sprite; each entry has the batch range 0..0 and the Z of the
\* sprite's translation as sort key; the extracted maps are not changed.
C13_QueueOneEntryPerVisibleSprite ==
    [][ pc = "queue" =>
          /\ extracted_sprites' = extracted_sprites
          /\ \A v \in Views :
               /\ \A i \in DOMAIN phases[v] : phases'[v][i] = phases[v][i]
               /\ \A e \in DOMAIN extracted_sprites.sprites :
                    Cardinality(EntriesOf(phases'[v], e))
                      = Cardinality(EntriesOf(phases[v], e))
                          + (IF e \in visible_entities[v] THEN 1 ELSE 0)
               /\ \A i \in DOMAIN phases'[v] \ DOMAIN phases[v] :
                    phases'[v][i].entity \in SpriteEnts =>
                       /\ phases'[v][i].entity \in DOMAIN extracted_sprites.sprites
                       /\ phases'[v][i].batch_range = [start |-> 0, end |-> 0]
                       /\ phases'[v][i].sort_key = sprite[phases'[v][i].entity].z ]_vars

\* after the queue stage a view has a sprite entry while another extracted
\* sprite is not in that view's visible set
C13_Witness ==
    /\ pc = "sort"
    /\ \E v \in Views :
          /\ \E i \in DOMAIN phases[v] : IsSprite(phases[v][i])
          /\ \E e \in DOMAIN extracted_sprites.sprites : e \notin visible_entities[v]

\* the images named by a Modified, Removed or Unused event of this frame
NamedByEvictingEvent ==
    {id \in Images :
        \E ev \in events : ev.id = id /\ ev.kind \in {"Modified", "Removed", "Unused"}}

\* cache after is cache before without the entries of the images in gone
Without(after, before, gone) ==
    /\ DOMAIN after = DOMAIN before \ gone
    /\ \A id \in DOMAIN after : after[id] = before[id]

\* C14: the first step of a batching pass removes from the sprite-texture
\* cache and from the mask-texture cache the entries of the images named by a
\* Modified, Removed or Unused event of the frame, and nothing else: Added and
\* LoadedWithDependencies events remove nothing, other entries are untouched.
C14_EvictionByAssetEvents ==
    [][ pc = "prepare" =>
          /\ Without(image_bind_groups'.values, image_bind_groups.values,
                     NamedByEvictingEvent)
          /\ Without(image_bind_groups'.mask_values, image_bind_groups.mask_values,
                     NamedByEvictingEvent) ]_vars

\* the second frame's pass ended after a Modified event for an image that
\* both caches held: both entries were made anew in this frame, while the
\* entry of another image is still the one of the first frame
C14_Witness ==
    /\ frame = 2
    /\ pc = "render"
    /\ \E ev \in events :
          /\ ev.kind = "Modified"
          /\ ev.id \in DOMAIN image_bind_groups.values
          /\ ev.id \in DOMAIN image_bind_groups.mask_values
          /\ image_bind_groups.values[ev.id] = 2
          /\ image_bind_groups.mask_values[ev.id] = 2
          /\ \E id \in DOMAIN image_bind_groups.values :
                image_bind_groups.values[id] = 1

\* the sprite entry the scan is at, if it is at one
AtSprite ==
    /\ pc = "scan"
    /\ ~AtEnd
    /\ IsSprite(phases[scan.view][scan.item_index])

ScannedSprite == extracted_sprites.sprites[phases[scan.view][scan.item_index].entity]

\* an entry of the cache stays as it is unless this step is the eviction
\* step and an evicting event names its image
EntriesKept(after, before) ==
    \A id \in DOMAIN before :
       ~(pc = "prepare" /\ id \in NamedByEvictingEvent)
          => id \in DOMAIN after /\ after[id] = before[id]

\* C15: an entry of a bind-group cache is created only by the step for a
\* sprite entry that needs the image (as its texture, or as the texture of
\* the first mask covering it) while the cache has no entry for it, and an
\* entry that is there is kept as it is by every step of every pass, reuse
\* included, unless a Modified, Removed or Unused event names its image.
C15_CacheEntriesLazyAndKept ==
    [][ /\ EntriesKept(image_bind_groups'.values, image_bind_groups.values)
        /\ EntriesKept(image_bind_groups'.mask_values, image_bind_groups.mask_values)
        /\ \A id \in DOMAIN image_bind_groups'.values \ DOMAIN image_bind_groups.values :
              /\ AtSprite
              /\ ScannedSprite.image_handle_id = id
              /\ id \in gpu_images
        /\ \A id \in DOMAIN image_bind_groups'.mask_values
                       \ DOMAIN image_bind_groups.mask_values :
              /\ AtSprite
              /\ id \in gpu_images
              /\ \E i \in CoveringMasks(ScannedSprite.order) :
                    /\ \A j \in CoveringMasks(ScannedSprite.order) : i <= j
                    /\ extracted_sprites.masks[i].image_handle_id = id ]_vars

\* the second frame's pass gave a masked record to a sprite whose texture
\* entry and whose mask texture entry are those made in the first frame
C15_Witness ==
    /\ frame = 2
    /\ pc = "render"
    /\ \E k \in DOMAIN placed :
          /\ placed[k].masked
          /\ image_bind_groups.values[RecordOf(placed[k]).image] = 1
          /\ image_bind_groups.mask_values[RecordOf(placed[k]).mask_image] = 1

\* C16: a draw that succeeds uses the masked instance buffer exactly when the
\* descriptor of the item has a mask image and the unmasked buffer otherwise,
\* sets the mask texture bind group exactly when the descriptor has a mask
\* image (and then that image's), and draws the instances of the
\* descriptor's range.
C16_DrawUsesDescriptor ==
    drawn.result = "Success" =>
      LET b == sprite_batch[drawn.entity]
      IN /\ drawn.buffer = (IF b.mask_image_handle_id = None THEN "unmasked"
                            ELSE "masked")
         /\ drawn.mask_texture = b.mask_image_handle_id
         /\ drawn.texture = b.image_handle_id
         /\ drawn.instances = b.range
         /\ drawn.steps = DrawSprite

\* a masked batch was drawn in a frame that also has an unmasked batch
C16_Witness ==
    /\ drawn.result = "Success"
    /\ drawn.buffer = "masked"
    /\ drawn.mask_texture # None
    /\ drawn.instances.end > drawn.instances.start
    /\ \E e \in DOMAIN sprite_batch : sprite_batch[e].mask_image_handle_id = None

\* C17: when nothing changed between two frames (same sprites, masks, views
\* and resolvable images, no asset event), the second pass does not panic and
\* ends with the same unmasked buffer, the same masked buffer and the same
\* batch descriptors as the first, whatever the first left in the caches
\* and buffers.
C17_RerunYieldsSamePass ==
    previous_pass.taken =>
      /\ pc # "panic"
      /\ pc = "render" =>
           /\ sprite_meta.sprite_instance_buffer = previous_pass.sprite_instance_buffer
           /\ sprite_meta.masked_sprite_instance_buffer
                = previous_pass.masked_sprite_instance_buffer
           /\ scan.batches = previous_pass.batches

\* the pass was run again on an unchanged frame and built records of both
\* kinds, with bind groups left by the first run
C17_Witness ==
    /\ previous_pass.taken
    /\ frame = 2
    /\ pc = "render"
    /\ sprite_meta.sprite_instance_buffer # << >>
    /\ sprite_meta.masked_sprite_instance_buffer # << >>
    /\ \E id \in DOMAIN image_bind_groups.values : image_bind_groups.values[id] = 1

\* |a - b| <= 2^-k, for two f32
Within(a, b, k) ==
    LET e == IF a.m = 0 THEN b.e ELSE IF b.m = 0 THEN a.e
             ELSE IF a.e < b.e THEN a.e ELSE b.e
        d == Signed(a, e) - Signed(b, e)
    IN d = 0 \/ (e <= -k /\ d <= 2^(-k - e) /\ -d <= 2^(-k - e))

PowerOfTwo(n) == \E k \in 0..BitLen(n) : n = 2^k

\* the value calculate_uv_offset_scale gave for the inputs at hand, and the
\* one it gives for them without flips
UvComputed ==
    calculate_uv_offset_scale(instance_data.image_size, instance_data.rect,
                              instance_data.flip_x, instance_data.flip_y)

UvUnflipped ==
    calculate_uv_offset_scale(instance_data.image_size, instance_data.rect,
                              FALSE, FALSE)

\* the remap of one axis was applied twice to the computed value, the other
\* not at all
TwiceX == instance_data.remaps_x = 2 /\ instance_data.remaps_y = 0
TwiceY == instance_data.remaps_x = 0 /\ instance_data.remaps_y = 2

BuiltSpriteInstance ==
    IF instance_data.masked THEN instance_data.instance.sprite
    ELSE instance_data.instance

InstanceBuilt == instance_data.stage \in {"instance", "pipeline"}

\* C19: each of the 19 BlendMode values converts to its fixed code, the codes
\* are pairwise distinct, and the blend_mode field of the instance record
\* built for a sprite is the code of the sprite's blend mode.
C19_BlendModeCodes ==
    InstanceBuilt =>
      LET code == BuiltSpriteInstance.blend_mode
          fixed == [Normal |-> 0, Darken |-> 10, Multiply |-> 11, ColorBurn |-> 12,
                    Lighten |-> 20, Screen |-> 21, ColorDodge |-> 22,
                    Addition |-> 23, Overlay |-> 30, SoftLight |-> 31,
                    HardLight |-> 32, Difference |-> 40, Exclusion |-> 41,
                    Subtract |-> 42, Divide |-> 43, Hue |-> 50,
                    Saturation |-> 51, Color |-> 52, Luminosity |-> 53]
      IN /\ Cardinality(BlendModes) = 19
         /\ BlendModes = DOMAIN fixed
         /\ \A m \in BlendModes : BlendModeCode(m) = fixed[m]
         /\ \A m, n \in BlendModes : m # n => BlendModeCode(m) # BlendModeCode(n)
         /\ code = fixed[instance_data.blend_mode]

\* a record was built for a sprite of blend mode SoftLight and carries 31
C19_Witness ==
    /\ InstanceBuilt
    /\ instance_data.blend_mode = "SoftLight"
    /\ BuiltSpriteInstance.blend_mode = 31

\* the ranges tile [from, to) in order, with no gap or overlap
Tiles(ranges, from, to) ==
    /\ Len(ranges) > 0
    /\ ranges[1].offset = from
    /\ \A i \in 1..(Len(ranges) - 1) :
          ranges[i].offset + ranges[i].size = ranges[i + 1].offset
    /\ ranges[Len(ranges)].offset + ranges[Len(ranges)].size = to

OffsetsOf(ranges) == [i \in 1..Len(ranges) |-> ranges[i].offset]

\* C20: the record layout matches the vertex layout of the pipeline: the
\* unmasked record's fields sit at 0, 16, 32, 48, 64, 80, 84 and tile [0,96);
\* the masked record is the unmasked one followed by fields at 96, 112, 128,
\* 144, 160 bytes in all; the stride is 96 for the unmasked pipeline variant
\* and 160 for the masked one.
C20_RecordMatchesVertexLayout ==
    instance_data.stage = "pipeline" =>
      LET ranges == instance_data.ranges
          layout == instance_data.layout
          attrs == layout.attributes
          unmasked == <<0, 16, 32, 48, 64, 80, 84>>
      IN /\ SubSeq(OffsetsOf(ranges), 1, 7) = unmasked
         /\ Tiles(SubSeq(ranges, 1, 7), 0, 96)
         /\ ~instance_data.masked =>
              /\ OffsetsOf(ranges) = unmasked
              /\ instance_data.size = 96
              /\ layout.array_stride = 96
         /\ instance_data.masked =>
              /\ OffsetsOf(ranges) = unmasked \o <<96, 112, 128, 144>>
              /\ Tiles(ranges, 0, 160)
              /\ instance_data.size = 160
              /\ layout.array_stride = 160
         /\ layout.array_stride = instance_data.size
         /\ Len(attrs) = Len(ranges)
         /\ \A i \in 1..Len(attrs) :
              /\ attrs[i].offset = ranges[i].offset
              /\ FormatSize(attrs[i].format) = ranges[i].size
              /\ attrs[i].shader_location = i - 1

\* a masked record was built and the masked pipeline variant specialized
C20_Witness ==
    /\ instance_data.stage = "pipeline"
    /\ instance_data.masked
    /\ Len(instance_data.ranges) = 11
    /\ instance_data.layout.array_stride = 160

\* a non-sprite item lies between the entries of the placed records a and b
OtherItemBetween(a, b) ==
    /\ a.view = b.view
    /\ \E i \in (a.item_index + 1) .. (b.item_index - 1) : ~IsSprite(phases[a.view][i])

\* C21: two processed sprite entries of a view with a non-sprite item between
\* them are in different batch descriptors, whatever the images, masks and
\* resolvable textures; the non-sprite item gets no descriptor and no record.
C21_NoBatchSpansOtherItem ==
    PassDone =>
      /\ \A j, k \in DOMAIN placed :
            OtherItemBetween(placed[j], placed[k]) => placed[j].batch # placed[k].batch
      /\ \A i \in DOMAIN scan.batches : scan.batches[i].entity # OtherEnt
      /\ \A k \in DOMAIN placed : placed[k].entity # OtherEnt
      /\ Len(placed) = Len(sprite_meta.sprite_instance_buffer)
                         + Len(sprite_meta.masked_sprite_instance_buffer)

\* the record for which batch descriptor i was pushed: the first one of the
\* pass that counts to it
PlacedIn(i) == {k \in DOMAIN placed : placed[k].batch = i}

Opener(i) == placed[CHOOSE k \in PlacedIn(i) : \A j \in PlacedIn(i) : k <= j]

Opens(v, item_index) ==
    \E i \in DOMAIN scan.batches :
       /\ PlacedIn(i) # {}
       /\ Opener(i).view = v
       /\ Opener(i).item_index = item_index

EmptyRange == [start |-> 0, end |-> 0]

\* C22: after a batching pass over lists whose items all started with the
\* empty batch range, the item that opened a batch has a batch range as long
\* as the range of the batch's descriptor, and every other item (later
\* members of a batch, skipped sprites, non-sprite items) has the range it had.
C22_OpenerRangeCountsBatch ==
    PassDone =>
      /\ \A i \in DOMAIN scan.batches :
            LET o == Opener(i)
                range == phases[o.view][o.item_index].batch_range
            IN /\ PlacedIn(i) # {}
               /\ range.end - range.start
                    = scan.batches[i].range.end - scan.batches[i].range.start
      /\ \A v \in Views : \A i \in DOMAIN phases[v] :
            ~Opens(v, i) => phases[v][i].batch_range = EmptyRange

\* the scan of a view's list is about to handle the first item
ViewStart == pc = "scan" /\ scan.view >= 1 /\ scan.item_index = 1

\* C23 as stated: at the start of the scan of every view's list the batch
\* image is "none", the batch mask is "none" and both cursors are zero.
C23_CursorsZeroPerView ==
    ViewStart =>
      /\ scan.batch_image_handle = Invalid
      /\ scan.batch_mask_handle = None
      /\ scan.unmasked_index = 0
      /\ scan.masked_index = 0

\* C23, amended: at the start of the scan of every view's list the batch
\* image is "none" and the batch mask is "none"; the cursors are zero at the
\* start of the first view and stand, at the start of a later view, at the
\* number of records the earlier views appended to each buffer.
C23_ViewStartState ==
    ViewStart =>
      /\ scan.batch_image_handle = Invalid
      /\ scan.batch_mask_handle = None
      /\ scan.unmasked_index = Len(sprite_meta.sprite_instance_buffer)
      /\ scan.masked_index = Len(sprite_meta.masked_sprite_instance_buffer)
      /\ scan.view = 1 => scan.unmasked_index = 0 /\ scan.masked_index = 0
      /\ \A k \in DOMAIN placed : placed[k].view < scan.view

\* the scan of the second view starts after the first view appended records
\* to both buffers
C23_Witness ==
    /\ ViewStart
    /\ scan.view = 2
    /\ scan.unmasked_index > 0
    /\ scan.masked_index > 0
    /\ scan.batch_image_handle = Invalid
    /\ phases[2] # << >>

\* what the sprite's own data, the mask map and the resolvable images say
\* about the entry of sprite e
OutcomeOf(e) ==
    LET covering == CoveringMasks(OrderOf(e))
        first == CHOOSE i \in covering : \A j \in covering : i <= j
    IN IF extracted_sprites.sprites[e].image_handle_id \notin gpu_images
       THEN [kind |-> "skipped", mask |-> None]
       ELSE IF covering = {} THEN [kind |-> "unmasked", mask |-> None]
       ELSE IF extracted_sprites.masks[first].image_handle_id \notin gpu_images
       THEN [kind |-> "skipped", mask |-> None]
       ELSE [kind |-> "masked", mask |-> extracted_sprites.masks[first].entity]

\* the sprite entries the pass has handled so far
Handled ==
    UNION {{<<v, i>> : i \in {j \in DOMAIN phases[v] :
                                 /\ IsSprite(phases[v][j])
                                 /\ v < scan.view \/ (v = scan.view /\ j < scan.item_index)}}
           : v \in Views}

PlacedAt(v, i) == {k \in DOMAIN placed : placed[k].view = v /\ placed[k].item_index = i}

\* C24: the outcome of the pass for a sprite entry (masked record, unmasked
\* record or skipped, and the mask used) is a function of the entry's own
\* sprite, the mask map in its iteration order and the set of resolvable
\* images, whatever entries precede it.
C24_OutcomeIsFunctionOfEntry ==
    pc \in {"scan", "render"} =>
      \A h \in Handled :
        LET e == phases[h[1]][h[2]].entity
            out == OutcomeOf(e)
            hits == PlacedAt(h[1], h[2])
        IN IF out.kind = "skipped"
           THEN hits = {} /\ e \in skipped.cur
           ELSE /\ Cardinality(hits) = 1
                /\ \A k \in hits :
                      /\ placed[k].masked = (out.kind = "masked")
                      /\ RecordOf(placed[k]).mask = out.mask

\* the same sprite was given a masked record as the first entry of one view
\* and after other entries in the other view, one of them skipped
C24_Witness ==
    /\ PassDone
    /\ skipped.cur # {}
    /\ \E j, k \in DOMAIN placed :
          /\ placed[j].entity = placed[k].entity
          /\ placed[j].view # placed[k].view
          /\ placed[j].item_index = 1
          /\ placed[k].item_index > 1
          /\ placed[j].masked /\ placed[k].masked

IndexBufferBuilt == sprite_meta.sprite_index_buffer = <<2, 0, 1, 1, 3, 2>>

\* C25: the index buffer (2,0,1,1,3,2) is built once and reused: after the
\* pass that first builds it no later pass clears it, refills it or uploads
\* it again.
C25_IndexBufferBuiltOnce ==
    [][IndexBufferBuilt => sprite_meta'.sprite_index_buffer = sprite_meta.sprite_index_buffer]_vars

\* C26: throughout a batching pass, after each entry, each cursor equals the
\* number of records of its instance buffer, and the range of every batch
\* descriptor satisfies start < end <= length of the buffer it is drawn from,
\* also when several views are scanned in the pass.
C26_CursorsAndRangesInBuffers ==
    pc \in {"scan", "render"} =>
      /\ scan.unmasked_index = Len(sprite_meta.sprite_instance_buffer)
      /\ scan.masked_index = Len(sprite_meta.masked_sprite_instance_buffer)
      /\ \A i \in DOMAIN scan.batches :
            LET b == scan.batches[i]
            IN b.range.start < b.range.end /\ b.range.end <= Len(BufferOf(b))

\* C27: the queue stage and the batching stage agree: the draw-phase item
\* that opens a batch was queued with the masked pipeline variant exactly
\* when the batch's descriptor has a mask identity, so the instance stride of
\* the pipeline (160 or 96 bytes) is the record size of the buffer the batch
\* is drawn from.
C27_QueueAndBatchingAgree ==
    InPass =>
      \A i \in DOMAIN scan.batches :
        LET b == scan.batches[i]
            o == Opener(i)
            item == phases[o.view][o.item_index]
            has_mask == b.mask_image_handle_id # None
        IN /\ PlacedIn(i) # {}
           /\ item.entity = b.entity
           /\ (item.pipeline = "masked") = has_mask
           /\ KeyContains(item.key, MASK_ENABLED) = has_mask
           /\ instance_rate_vertex_buffer_layout(item.key).array_stride
                = RecordSize(InstanceBuffer(b) = "masked")
           /\ instance_rate_vertex_buffer_layout(item.key).array_stride
                = IF has_mask THEN 160 ELSE 96

\* a pass over both views ended with a masked and an unmasked descriptor,
\* the masked one for a sprite that the first mask of the map does not cover
C27_Witness ==
    /\ PassDone
    /\ phases[1] # << >> /\ phases[2] # << >>
    /\ \E i, j \in DOMAIN scan.batches :
          /\ scan.batches[i].mask_image_handle_id = None
          /\ scan.batches[j].mask_image_handle_id # None
          /\ ~Covers(OrderOf(scan.batches[j].entity), extracted_sprites.masks[1])

\* C28: after a batching pass the sprite-texture cache holds a bind group for
\* the image identity of every batch descriptor of the pass and the
\* mask-texture cache one for its mask identity, if it has one, whatever was
\* evicted at the start of the pass; the cache lookups of the render commands
\* of the frame do not miss.
C28_DescriptorsHaveBindGroups ==
    PassDone =>
      /\ \A i \in DOMAIN scan.batches :
            LET b == scan.batches[i]
            IN /\ b.image_handle_id \in DOMAIN image_bind_groups.values
               /\ b.mask_image_handle_id # None
                    => b.mask_image_handle_id \in DOMAIN image_bind_groups.mask_values
      /\ \A e \in DOMAIN sprite_batch :
            /\ SetSpriteTextureBindGroup(e) = "Success"
            /\ SetSpriteMaskTextureBindGroup(e) = "Success"
      /\ drawn.result # "Panic"

\* the pass of the second frame evicted the bind group of a mask image the
\* first frame had cached, and produced a descriptor with that mask image
C28_Witness ==
    /\ PassDone
    /\ frame = 2
    /\ \E ev \in events : \E i \in DOMAIN scan.batches :
          /\ Evicts(ev.kind)
          /\ scan.batches[i].mask_image_handle_id = ev.id
          /\ ev.id \in DOMAIN image_bind_groups.mask_values
          /\ image_bind_groups.mask_values[ev.id] = 2
          /\ image_bind_groups.values[scan.batches[i].image_handle_id] = 1

\* C29: within one batching pass over all views no two batch descriptors are
\* keyed by the same entity, so attaching them to their entities at the end
\* of the pass replaces no descriptor by another, also when a sprite is
\* visible in two views.
C29_DescriptorsKeyedOnce ==
    PassDone =>
      /\ \A i, j \in DOMAIN scan.batches :
            i # j => scan.batches[i].entity # scan.batches[j].entity
      /\ \A i \in DOMAIN scan.batches :
            sprite_batch[scan.batches[i].entity] = scan.batches[i]

====
